---- MODULE Spec2Model ----
(***************************************************************************)
(* Background synchronisation core of the Synology download manager        *)
(* extension: the no-permissions retry wrapper, pollTasks, the persisted   *)
(* task cache and the stored-state listener of the background page that    *)
(* decides completion notifications.                                       *)
(***************************************************************************)
EXTENDS Integers, Sequences, FiniteSets, TLC

\* ------------------------------------------------------------------ bounds
MaxStarted == 3    \* pollTasks invocations in one behaviour
MaxTicks == 1      \* clock ticks after START_TIME
MaxUrls == 2       \* URLs in one submission

\* --------------------------------------------------------------- constants
NO_PERMISSIONS_ERROR_CODE == 105
OtherErrorCode == NO_PERMISSIONS_ERROR_CODE - 5   \* an application error code other than 105
Null == 0                       \* null timestamp (Date.now() is never 0)
START_TIME == 2                 \* Date.now() when the background page loads
PrevSessionTime == START_TIME - 1   \* a timestamp persisted by an earlier process

IdOrder == <<"1">>
TaskIds == {IdOrder[i] : i \in 1..Len(IdOrder)}
Statuses == {"downloading", "finished", "seeding"}
ConnectionValues == {"hostA", "hostB"}
PollingIntervals == {30, 60}
BadgeDisplayTypes == {"total", "filtered"}
\* visibleTasks, as the set of the statuses that are shown
VisibleTaskFilters == {Statuses, {"downloading"}}
RED == <<217, 0, 0, 255>>
GREEN == <<0, 217, 0, 255>>
Places == {1, 2}     \* the invocations of pollTasks that can overlap in Spec
OnePlace == {1}      \* one invocation at a time, in SpecPoll

VARIABLES
  now,                      \* Date.now()
  cache,                    \* browser.storage.local, the CachedTasks keys
  settings,                 \* browser.storage.local, the settings keys
  polls,                    \* the pollTasks invocations, in flight or ended
  started,                  \* pollTasks invocations so far (the uniqueId counter)
  pendingClears,            \* clearCachedTasks writes issued, not yet settled
  apiSettings,              \* the settings held by the ApiClient
  lastNotificationSettings,
  notificationInterval,     \* handle of the last setInterval, 0 = undefined
  liveTimers,               \* the intervals that are set and not cleared
  finishedTaskIds,
  notified,                 \* completion notifications sent, in order
  badge,                    \* the icon set, badge text and badge colour last set
  confirmedPolls,           \* the confirmed polls so far: how many (up to 2)
                            \* and the list of the first
  lastAlone,                \* the result keys of the cache were last written
                            \* by a poll of this process that no other write
                            \* of them overlapped
  submission,               \* the invocation of addDownloadTasksAndPoll
  probe                     \* one per-URL resolution, with what the network
                            \* answered to it

vars == <<now, cache, settings, polls, started, pendingClears,
          apiSettings, lastNotificationSettings, notificationInterval,
          liveTimers, finishedTaskIds, notified, badge, confirmedPolls,
          lastAlone, submission, probe>>

\* ------------------------------------------------------------- responses
NoResult == [kind |-> "none", type |-> "", code |-> 0, tasks |-> <<>>]
Rejection == [kind |-> "throw", type |-> "", code |-> 0, tasks |-> <<>>]
ConnectionFailure(t) == [kind |-> "conn", type |-> t, code |-> 0, tasks |-> <<>>]
Success(l) == [kind |-> "ok", type |-> "", code |-> 0, tasks |-> l]
ErrorResponse(c) == [kind |-> "err", type |-> "", code |-> c, tasks |-> <<>>]

isConnectionFailure(r) == r.kind = "conn"

\* A task list of the server: the tasks it has, in id order, each with its
\* status at the moment the server answers.
TaskList(rem) ==
  SelectSeq([i \in 1..Len(IdOrder) |-> [id |-> IdOrder[i], status |-> rem[IdOrder[i]]]],
            LAMBDA t : t.status # "absent")
TaskLists == {TaskList(rem) : rem \in [TaskIds -> Statuses \cup {"absent"}]}

\* What a call of DownloadStation.Task.List can settle with.
ListOutcomes ==
  { ConnectionFailure("missing-config"), ConnectionFailure("timeout"),
    ErrorResponse(NO_PERMISSIONS_ERROR_CODE), ErrorResponse(OtherErrorCode),
    Rejection } \cup {Success(l) : l \in TaskLists}

\* The outcomes the notification decision tells apart: a list, or a failure.
PlainOutcomes == {ConnectionFailure("timeout")} \cup {Success(l) : l \in TaskLists}

\* --------------------------------------------- wrapInNoPermissionsRetry
IsNoPermissions(r) ==
  ~isConnectionFailure(r) /\ r.kind = "err" /\ r.code = NO_PERMISSIONS_ERROR_CODE

\* The wrapped function has been called: fn(api, ...args) is in flight.
WrapCall(args) ==
  [ args |-> args, calls |-> <<args>>, resps |-> <<>>, logouts |-> 0,
    state |-> "pending", ret |-> NoResult ]

\* WrapOnResult with the retry repeated for as long as the answer is the
\* no-permissions error.
WrapOnResultRetryAgain(w, r) ==
  IF r.kind = "throw"
    THEN [w EXCEPT !.resps = Append(@, r), !.state = "rejected"]
  ELSE IF Len(w.calls) <= 2 /\ IsNoPermissions(r)
    THEN [w EXCEPT !.resps = Append(@, r), !.logouts = @ + 1,
                   !.calls = Append(@, w.args)]
  ELSE [w EXCEPT !.resps = Append(@, r), !.state = "settled", !.ret = r]

\* WrapOnResult with the retry taken on every application error.
WrapOnResultAnyError(w, r) ==
  IF r.kind = "throw"
    THEN [w EXCEPT !.resps = Append(@, r), !.state = "rejected"]
  ELSE IF Len(w.calls) = 1 /\ r.kind = "err"
    THEN [w EXCEPT !.resps = Append(@, r), !.logouts = @ + 1,
                   !.calls = Append(@, w.args)]
  ELSE [w EXCEPT !.resps = Append(@, r), !.state = "settled", !.ret = r]

\* The call of fn that is in flight settles with r.
WrapOnResult(w, r) ==
  IF r.kind = "throw"
    THEN [w EXCEPT !.resps = Append(@, r), !.state = "rejected"]
  ELSE IF Len(w.calls) = 1 /\ IsNoPermissions(r)
    THEN [w EXCEPT !.resps = Append(@, r), !.logouts = @ + 1,
                   !.calls = Append(@, w.args)]
  ELSE [w EXCEPT !.resps = Append(@, r), !.state = "settled", !.ret = r]

ListArgs == <<0, -1, "transfer", 20000>>

\* ------------------------------------------------------------ the cache
NoReason == [kind |-> "null", from |-> "", code |-> 0, type |-> ""]
MissingConfig == [kind |-> "missing-config", from |-> "", code |-> 0, type |-> ""]
\* { failureMessage: errorMessageFromCode(code, 'DownloadStation.Task') }
errorMessageFromCode(c) == [kind |-> "failure", from |-> "code", code |-> c, type |-> ""]
\* { failureMessage: errorMessageFromConnectionFailure(response) }
errorMessageFromConnectionFailure(r) ==
  [kind |-> "failure", from |-> "connection", code |-> 0, type |-> r.type]

emptyState ==
  [ tasks |-> <<>>, taskFetchFailureReason |-> NoReason,
    tasksLastCompletedFetchTimestamp |-> Null,
    tasksLastInitiatedFetchTimestamp |-> Null ]

\* browser.storage.local.set(partial): the keys that are present replace the
\* stored ones, the others stay.
StorageSet(c, w) ==
  [ tasks |-> IF w.hasTasks THEN w.tasks ELSE c.tasks,
    taskFetchFailureReason |->
      IF w.hasReason THEN w.taskFetchFailureReason ELSE c.taskFetchFailureReason,
    tasksLastCompletedFetchTimestamp |->
      IF w.hasCompleted THEN w.tasksLastCompletedFetchTimestamp
      ELSE c.tasksLastCompletedFetchTimestamp,
    tasksLastInitiatedFetchTimestamp |->
      IF w.hasInitiated THEN w.tasksLastInitiatedFetchTimestamp
      ELSE c.tasksLastInitiatedFetchTimestamp ]

NoWrite ==
  [ hasTasks |-> FALSE, tasks |-> <<>>,
    hasReason |-> FALSE, taskFetchFailureReason |-> NoReason,
    hasCompleted |-> FALSE, tasksLastCompletedFetchTimestamp |-> Null,
    hasInitiated |-> FALSE, tasksLastInitiatedFetchTimestamp |-> Null ]

\* const cachedTasksInit = { tasksLastInitiatedFetchTimestamp: Date.now() }
cachedTasksInit(t) ==
  [NoWrite EXCEPT !.hasInitiated = TRUE, !.tasksLastInitiatedFetchTimestamp = t]

\* setCachedTasksResponse with the completion timestamp left to another write.
setCachedTasksResponseTorn(w, t) == w

\* setCachedTasksResponse(cachedTasks): the given keys and the completion
\* timestamp, in one set call.
setCachedTasksResponse(w, t) ==
  [w EXCEPT !.hasCompleted = TRUE, !.tasksLastCompletedFetchTimestamp = t]

\* Classify with an empty task list written in the failure branches.
ClassifyClearsTasks(r, t) ==
  IF r.kind = "ok"
    THEN setCachedTasksResponse(
           [NoWrite EXCEPT !.hasTasks = TRUE, !.tasks = r.tasks,
                           !.hasReason = TRUE, !.taskFetchFailureReason = NoReason], t)
    ELSE setCachedTasksResponse(
           [NoWrite EXCEPT !.hasTasks = TRUE, !.tasks = <<>>,
                           !.hasReason = TRUE,
                           !.taskFetchFailureReason =
                               IF isConnectionFailure(r)
                                 THEN IF r.type = "missing-config"
                                        THEN MissingConfig
                                        ELSE errorMessageFromConnectionFailure(r)
                                 ELSE errorMessageFromCode(r.code)], t)

\* Classify with the test of the failure type left out.
ClassifyNoType(r, t) ==
  IF isConnectionFailure(r)
    THEN setCachedTasksResponse(
           [NoWrite EXCEPT !.hasReason = TRUE,
                           !.taskFetchFailureReason = MissingConfig], t)
  ELSE IF r.kind = "ok"
    THEN setCachedTasksResponse(
           [NoWrite EXCEPT !.hasTasks = TRUE, !.tasks = r.tasks,
                           !.hasReason = TRUE, !.taskFetchFailureReason = NoReason], t)
  ELSE setCachedTasksResponse(
         [NoWrite EXCEPT !.hasReason = TRUE,
                         !.taskFetchFailureReason = errorMessageFromCode(r.code)], t)

\* The .then handler of pollTasks: the write it issues for response r at time t.
Classify(r, t) ==
  IF isConnectionFailure(r)
    THEN IF r.type = "missing-config"
           THEN setCachedTasksResponse(
                  [NoWrite EXCEPT !.hasReason = TRUE,
                                  !.taskFetchFailureReason = MissingConfig], t)
           ELSE setCachedTasksResponse(
                  [NoWrite EXCEPT !.hasReason = TRUE,
                                  !.taskFetchFailureReason =
                                      errorMessageFromConnectionFailure(r)], t)
  ELSE IF r.kind = "ok"
    THEN setCachedTasksResponse(
           [NoWrite EXCEPT !.hasTasks = TRUE, !.tasks = r.tasks,
                           !.hasReason = TRUE, !.taskFetchFailureReason = NoReason], t)
  ELSE setCachedTasksResponse(
         [NoWrite EXCEPT !.hasReason = TRUE,
                         !.taskFetchFailureReason = errorMessageFromCode(r.code)], t)

\* ------------------------------------------- the stored-state listener
StoredState(c, s) == [cache |-> c, settings |-> s]

UndefinedSettings ==
  [enableCompletionNotifications |-> FALSE, completionPollingInterval |-> 0]
UndefinedIds == [defined |-> FALSE, ids |-> <<>>]

IsTerminal(t) == t.status = "finished" \/ t.status = "seeding"

Ids(tasks) == [i \in 1..Len(tasks) |-> tasks[i].id]
Contains(seq, x) == \E i \in 1..Len(seq) : seq[i] = x

\* IsConfirmed with a completion at START_TIME itself let through.
IsConfirmedNotStrict(st) ==
  /\ st.cache.tasksLastCompletedFetchTimestamp # Null
  /\ st.cache.tasksLastCompletedFetchTimestamp >= START_TIME
  /\ st.cache.taskFetchFailureReason = NoReason

\* The guard of the completion-notification decision.
IsConfirmed(st) ==
  /\ st.cache.tasksLastCompletedFetchTimestamp # Null
  /\ st.cache.tasksLastCompletedFetchTimestamp > START_TIME
  /\ st.cache.taskFetchFailureReason = NoReason

updatedFinishedTaskIds(st) == Ids(SelectSeq(st.cache.tasks, IsTerminal))

\* newlyFinishedTaskIds with the test of indexOf turned round.
newlyFinishedTaskIdsKnown(st, fin) ==
  SelectSeq(updatedFinishedTaskIds(st), LAMBDA id : Contains(fin.ids, id))

newlyFinishedTaskIds(st, fin) ==
  SelectSeq(updatedFinishedTaskIds(st), LAMBDA id : ~Contains(fin.ids, id))

\* CompletionNotifications with an undefined finishedTaskIds taken as empty.
CompletionNotificationsOnFirst(st, fin) ==
  IF IsConfirmed(st) /\ st.settings.notifications.enableCompletionNotifications
    THEN newlyFinishedTaskIds(st, fin)
    ELSE <<>>

\* CompletionNotifications for every terminal task, tracked or not.
CompletionNotificationsAll(st, fin) ==
  IF IsConfirmed(st) /\ fin.defined
       /\ st.settings.notifications.enableCompletionNotifications
    THEN updatedFinishedTaskIds(st)
    ELSE <<>>

\* The notify calls of one firing: the titles, in order.
CompletionNotifications(st, fin) ==
  IF IsConfirmed(st) /\ fin.defined
       /\ st.settings.notifications.enableCompletionNotifications
    THEN newlyFinishedTaskIds(st, fin)
    ELSE <<>>

\* NextFinishedTaskIds that seeds the ids and then never adds one.
NextFinishedTaskIdsNoGrow(st, fin) ==
  IF IsConfirmed(st)
    THEN [ defined |-> TRUE,
           ids |-> IF fin.defined THEN fin.ids ELSE updatedFinishedTaskIds(st) ]
    ELSE fin

\* NextFinishedTaskIds that replaces the ids by the terminal ones of the list.
NextFinishedTaskIdsReplace(st, fin) ==
  IF IsConfirmed(st)
    THEN [defined |-> TRUE, ids |-> updatedFinishedTaskIds(st)]
    ELSE fin

\* finishedTaskIds after one firing.
NextFinishedTaskIds(st, fin) ==
  IF IsConfirmed(st)
    THEN [ defined |-> TRUE,
           ids |-> (IF fin.defined THEN fin.ids ELSE <<>>) \o
                   SelectSeq(updatedFinishedTaskIds(st),
                             LAMBDA id : ~fin.defined \/ ~Contains(fin.ids, id)) ]
    ELSE fin

\* filterTasks(tasks, visibleTasks): the tasks whose status is shown.
filterTasks(tasks, visible) == SelectSeq(tasks, LAMBDA t : t.status \in visible)

NoBadge == [icon |-> "none", text |-> "", color |-> <<>>]

\* BadgeDecision with the task count shown in the failure state too.
BadgeDecisionCountsOnFailure(st) ==
  [ icon |-> IF st.cache.taskFetchFailureReason # NoReason
               THEN "disabled" ELSE "enabled",
    text |-> IF Len(st.cache.tasks) = 0 THEN "" ELSE ToString(Len(st.cache.tasks)),
    color |-> IF st.cache.taskFetchFailureReason # NoReason THEN RED ELSE GREEN ]

\* BadgeDecision with badgeDisplayType ignored: always the total.
BadgeDecisionAlwaysTotal(st) ==
  IF st.cache.taskFetchFailureReason # NoReason
    THEN [icon |-> "disabled", text |-> "", color |-> RED]
    ELSE [ icon |-> "enabled",
           text |-> IF Len(st.cache.tasks) = 0 THEN ""
                    ELSE ToString(Len(st.cache.tasks)),
           color |-> GREEN ]

\* The badge decision of one firing: setIcon, setBadgeText,
\* setBadgeBackgroundColor.
BadgeDecision(st) ==
  IF st.cache.taskFetchFailureReason # NoReason
    THEN [icon |-> "disabled", text |-> "", color |-> RED]
    ELSE LET taskCount ==
               IF st.settings.badgeDisplayType = "total"
                 THEN Len(st.cache.tasks)
                 ELSE Len(filterTasks(st.cache.tasks, st.settings.visibleTasks))
         IN [ icon |-> "enabled",
              text |-> IF taskCount = 0 THEN "" ELSE ToString(taskCount),
              color |-> GREEN ]

\* setInterval returns a handle that no live interval has.
FreshHandle(timers) ==
  CHOOSE h \in 1..(Cardinality(timers) + 1) : \A t \in timers : t.handle # h

\* clearInterval(notificationInterval) and, when enabled, setInterval, whose
\* handle is not that of the interval just cleared.
ReconcileTimers(n, handle, timers) ==
  LET cleared == {t \in timers : t.handle # handle}
      h == FreshHandle(timers)
  IN IF n.enableCompletionNotifications
       THEN [ timers |-> cleared \cup
                        {[handle |-> h, period |-> n.completionPollingInterval]},
              handle |-> h ]
       ELSE [ timers |-> cleared, handle |-> handle ]

\* Listener with the timer reconciled at every firing, the notification
\* settings changed or not.
ListenerAlwaysReconciles(st, clears) ==
  LET didUpdateSettings == st.settings.connection # apiSettings
      rec == ReconcileTimers(st.settings.notifications, notificationInterval,
                             liveTimers)
  IN /\ apiSettings' = st.settings.connection
     /\ pendingClears' = IF didUpdateSettings THEN clears + 1 ELSE clears
     /\ lastNotificationSettings' = st.settings.notifications
     /\ liveTimers' = rec.timers
     /\ notificationInterval' = rec.handle
     /\ badge' = BadgeDecision(st)
     /\ notified' = notified \o CompletionNotifications(st, finishedTaskIds)
     /\ finishedTaskIds' = NextFinishedTaskIds(st, finishedTaskIds)

\* One firing of the listener on the stored state st; clears is the number
\* of clearCachedTasks writes in flight when it fires.
Listener(st, clears) ==
  LET didUpdateSettings == st.settings.connection # apiSettings
      changed == st.settings.notifications # lastNotificationSettings
      rec == ReconcileTimers(st.settings.notifications, notificationInterval,
                             liveTimers)
  IN /\ apiSettings' = st.settings.connection
     /\ pendingClears' = IF didUpdateSettings THEN clears + 1 ELSE clears
     /\ lastNotificationSettings' = st.settings.notifications
     /\ liveTimers' = IF changed THEN rec.timers ELSE liveTimers
     /\ notificationInterval' = IF changed THEN rec.handle ELSE notificationInterval
     /\ badge' = BadgeDecision(st)
     /\ notified' = notified \o CompletionNotifications(st, finishedTaskIds)
     /\ finishedTaskIds' = NextFinishedTaskIds(st, finishedTaskIds)

\* onStoredStateChange: every committed write to the store fires the listener
\* on the state it leaves.
onStoredStateChange(c, s, clears) == Listener(StoredState(c, s), clears)

\* ------------------------------------------------------------- pollTasks
IdlePoll ==
  [ pc |-> "idle", initTs |-> Null, initWrite |-> "none",
    wrap |-> [ args |-> ListArgs, calls |-> <<>>, resps |-> <<>>, logouts |-> 0,
               state |-> "idle", ret |-> NoResult ],
    payload |-> NoWrite, resultWrite |-> "none", promise |-> "none",
    caught |-> FALSE, alone |-> FALSE, conn |-> "unset" ]

\* The synchronous part of pollTasks: the initiated write and the wrapped
\* list call are issued. alone: no other write of the result keys has landed
\* since this invocation started. conn: the connection settings the api
\* client holds when the list call is issued.
StartedPoll(t) ==
  [ IdlePoll EXCEPT !.pc = "running", !.initTs = t, !.initWrite = "pending",
                    !.wrap = WrapCall(ListArgs), !.promise = "pending",
                    !.alone = TRUE, !.conn = apiSettings ]

\* A write of the result keys lands: no invocation in flight is alone any more.
Overlapped(ps) == [q \in DOMAIN ps |-> [ps[q] EXCEPT !.alone = FALSE]]

\* An invocation all of whose promises have settled keeps no data: only how
\* the promise it returned ended.
Settled(pl) ==
  IF pl.pc = "done" /\ pl.initWrite # "pending" /\ pl.wrap.state # "pending"
    THEN [IdlePoll EXCEPT !.pc = "done", !.promise = pl.promise]
    ELSE pl

\* Catch with a handler that writes the failure to the cache.
CatchWritesFailure(pl) ==
  [pl EXCEPT !.pc = "writing", !.caught = TRUE, !.resultWrite = "pending",
             !.payload = [NoWrite EXCEPT !.hasReason = TRUE,
                                         !.taskFetchFailureReason = MissingConfig,
                                         !.hasCompleted = TRUE,
                                         !.tasksLastCompletedFetchTimestamp = START_TIME]]

\* Catch without the handler: the rejection reaches the caller.
CatchMissing(pl) == [pl EXCEPT !.pc = "done", !.promise = "rejected", !.caught = TRUE]

\* The .catch handler: logs, and the promise pollTasks returned resolves.
Catch(pl) == [pl EXCEPT !.pc = "done", !.promise = "resolved", !.caught = TRUE]

\* The Promise.all of a running poll rejects as soon as one member does.
RejectAll(pl) == IF pl.pc = "running" THEN Catch(pl) ELSE pl


\* The places of invocations that have ended, promises and all: a new
\* invocation takes the first of them.
FreeSlots(places) ==
  {p \in places : /\ polls[p].pc \in {"idle", "done"}
                  /\ polls[p].initWrite # "pending"
                  /\ polls[p].wrap.state # "pending"
                  /\ ~(submission.pc = "polling" /\ submission.place = p)}
NewPoll(places) == CHOOSE p \in FreeSlots(places) : \A q \in FreeSlots(places) : p <= q

\* A poll can start within the bounds, the polls that the clears in flight
\* will start counted.
CanStartPoll(places) ==
  /\ Cardinality(FreeSlots(places)) > pendingClears
  /\ started + pendingClears < MaxStarted

\* A tick of the periodic timer: pollTasks(api).
TimerTick(places) ==
  /\ liveTimers # {}
  /\ CanStartPoll(places)
  /\ polls' = [polls EXCEPT ![NewPoll(places)] = StartedPoll(now)]
  /\ started' = started + 1
  /\ UNCHANGED <<probe, submission, now, cache, settings, pendingClears, apiSettings,
                 lastNotificationSettings, notificationInterval, liveTimers,
                 finishedTaskIds, notified, badge, confirmedPolls,
                 lastAlone>>

\* browser.storage.local.set(cachedTasksInit) commits.
InitWriteCommit(p) ==
  /\ polls[p].initWrite = "pending"
  /\ cache' = StorageSet(cache, cachedTasksInit(polls[p].initTs))
  /\ polls' = [polls EXCEPT ![p] = Settled([@ EXCEPT !.initWrite = "ok"])]
  /\ onStoredStateChange(cache', settings, pendingClears)
  /\ UNCHANGED <<probe, submission, now, settings, started, confirmedPolls, lastAlone>>

\* browser.storage.local.set(cachedTasksInit) rejects.
InitWriteReject(p) ==
  /\ polls[p].initWrite = "pending"
  /\ polls' = [polls EXCEPT ![p] =
                  Settled(RejectAll([@ EXCEPT !.initWrite = "rejected"]))]
  /\ UNCHANGED <<probe, submission, now, cache, settings, started, pendingClears, apiSettings,
                 lastNotificationSettings, notificationInterval, liveTimers,
                 finishedTaskIds, notified, badge, confirmedPolls,
                 lastAlone>>

\* The list call that is in flight settles with r.
ListRespond(p, r) ==
  /\ polls[p].wrap.state = "pending"
  /\ LET w == WrapOnResult(polls[p].wrap, r)
         pl == [polls[p] EXCEPT !.wrap = w]
     IN polls' = [polls EXCEPT ![p] =
                    Settled(IF w.state = "rejected" THEN RejectAll(pl) ELSE pl)]
  /\ UNCHANGED <<probe, submission, now, cache, settings, started, pendingClears, apiSettings,
                 lastNotificationSettings, notificationInterval, liveTimers,
                 finishedTaskIds, notified, badge, confirmedPolls,
                 lastAlone>>

\* PollThen as soon as the list call has settled, the initiated write or not.
PollThenEarly(p) ==
  /\ polls[p].pc = "running"
  /\ polls[p].wrap.state = "settled"
  /\ polls' = [polls EXCEPT ![p].pc = "writing",
                            ![p].payload = Classify(polls[p].wrap.ret, now),
                            ![p].resultWrite = "pending"]
  /\ UNCHANGED <<probe, submission, now, cache, settings, started, pendingClears, apiSettings,
                 lastNotificationSettings, notificationInterval, liveTimers,
                 finishedTaskIds, notified, badge, confirmedPolls,
                 lastAlone>>

\* Both members of the Promise.all are fulfilled: the .then handler classifies
\* the response and issues the result write.
PollThen(p) ==
  /\ polls[p].pc = "running"
  /\ polls[p].initWrite = "ok"
  /\ polls[p].wrap.state = "settled"
  /\ polls' = [polls EXCEPT ![p].pc = "writing",
                            ![p].payload = Classify(polls[p].wrap.ret, now),
                            ![p].resultWrite = "pending"]
  /\ UNCHANGED <<probe, submission, now, cache, settings, started, pendingClears, apiSettings,
                 lastNotificationSettings, notificationInterval, liveTimers,
                 finishedTaskIds, notified, badge, confirmedPolls,
                 lastAlone>>

\* A poll whose result write makes a confirmed poll of it.
IsConfirmedPoll(w) ==
  w.hasTasks /\ w.taskFetchFailureReason = NoReason
    /\ w.tasksLastCompletedFetchTimestamp > START_TIME

\* The result write commits, and the promise pollTasks returned resolves.
ResultWriteCommit(p) ==
  /\ polls[p].pc = "writing"
  /\ polls[p].resultWrite = "pending"
  /\ cache' = StorageSet(cache, polls[p].payload)
  /\ polls' = [Overlapped(polls) EXCEPT ![p] =
                  Settled([polls[p] EXCEPT !.pc = "done", !.resultWrite = "ok",
                                           !.promise = "resolved"])]
  /\ onStoredStateChange(cache', settings, pendingClears)
  /\ confirmedPolls' =
       IF IsConfirmedPoll(polls[p].payload) /\ confirmedPolls.count < 2
         THEN [ count |-> confirmedPolls.count + 1,
                first |-> IF confirmedPolls.count = 0 THEN polls[p].payload.tasks
                          ELSE confirmedPolls.first ]
         ELSE confirmedPolls
  /\ lastAlone' = polls[p].alone
  /\ UNCHANGED <<probe, submission, now, settings, started>>

\* The result write rejects: the .catch handler runs.
ResultWriteReject(p) ==
  /\ polls[p].pc = "writing"
  /\ polls[p].resultWrite = "pending"
  /\ polls' = [polls EXCEPT ![p] = Settled(Catch([@ EXCEPT !.resultWrite = "rejected"]))]
  /\ UNCHANGED <<probe, submission, now, cache, settings, started, pendingClears, apiSettings,
                 lastNotificationSettings, notificationInterval, liveTimers,
                 finishedTaskIds, notified, badge, confirmedPolls,
                 lastAlone>>

\* ------------------------------------------------------ clearCachedTasks
\* The write of clearCachedTasks commits; its .then starts a poll.
ClearCommit(places) ==
  /\ pendingClears > 0
  /\ FreeSlots(places) # {}
  /\ cache' = emptyState
  /\ onStoredStateChange(cache', settings, pendingClears - 1)
  /\ polls' = [Overlapped(polls) EXCEPT ![NewPoll(places)] = StartedPoll(now)]
  /\ started' = started + 1
  /\ lastAlone' = FALSE
  /\ UNCHANGED <<probe, submission, now, settings, confirmedPolls>>

\* The write of clearCachedTasks rejects: no poll is started.
ClearReject ==
  /\ pendingClears > 0
  /\ pendingClears' = pendingClears - 1
  /\ UNCHANGED <<probe, submission, now, cache, settings, polls, started, apiSettings,
                 lastNotificationSettings, notificationInterval, liveTimers,
                 finishedTaskIds, notified, badge, confirmedPolls,
                 lastAlone>>

\* ------------------------------------------------ addDownloadTasksAndPoll
AUTO_DOWNLOAD_TORRENT_FILE_PROTOCOLS == {"http", "https"}
DOWNLOADABLE_PROTOCOLS ==
  {"http", "https", "ftp", "ftps", "magnet", "thunder", "flashget", "qqdl"}
METADATA_FILE_TYPES ==
  << [mediaType |-> "application/x-bittorrent", extension |-> ".torrent"],
     [mediaType |-> "application/x-nzb", extension |-> ".nzb"] >>
ARBITRARY_FILE_FETCH_SIZE_CUTOFF == 1024 * 1024 * 5
NaN == 0 - 1      \* +contentLength of a header that is missing or no number

NoHeader == "(no header)"     \* response.headers[...] of a header not sent

\* A URL, by what the pipeline reads of it: its scheme and the metadata
\* extension its part before the query ends with ("" for none).
UrlValues ==
  { [scheme |-> "magnet", ext |-> ""], [scheme |-> "https", ext |-> ".torrent"],
    [scheme |-> "https", ext |-> ""], [scheme |-> "file", ext |-> ""] }
UrlLists == UNION {[1..n -> UrlValues] : n \in 0..MaxUrls}

NoPath == [given |-> FALSE, slash |-> FALSE, rest |-> ""]

\* The path argument: absent (or empty), or a string with or without a
\* leading '/'.
Paths ==
  { NoPath,
    [given |-> TRUE, slash |-> TRUE, rest |-> "downloads"],
    [given |-> TRUE, slash |-> FALSE, rest |-> "downloads"] }
NoDestination == [defined |-> FALSE, value |-> ""]
\* path && path.startsWith('/') ? path.slice(1) : undefined
Destination(path) ==
  IF path.given /\ path.slash
    THEN [defined |-> TRUE, value |-> path.rest]
    ELSE NoDestination

\* What the network answers for one URL: the HEAD probe (failed, or the
\* content-type and content-length headers) and whether the GET succeeds.
HeadAnswers ==
  { [ok |-> FALSE, contentType |-> "", contentLength |-> NaN],
    [ok |-> TRUE, contentType |-> NoHeader, contentLength |-> 1024] } \cup
  { [ok |-> TRUE, contentType |-> t, contentLength |-> l] :
      t \in {"application/x-bittorrent", "text/html"},
      l \in {1024, 2 * ARBITRARY_FILE_FETCH_SIZE_CUTOFF, NaN} }
ProbeAnswers == [head : HeadAnswers, get : BOOLEAN]

startsWithAnyProtocol(url, protocols) == url.scheme \in protocols

\* find(METADATA_FILE_TYPES, ...): some type matches the content type or the
\* extension of the URL without its query.
HasMetadataFileType(url, contentType) ==
  \E i \in 1..Len(METADATA_FILE_TYPES) :
    \/ contentType = METADATA_FILE_TYPES[i].mediaType
    \/ url.ext = METADATA_FILE_TYPES[i].extension

Resolution(url, result, probed, fetched) ==
  [url |-> url, result |-> result, probed |-> probed, fetched |-> fetched]

\* maybeMapUrlToFile(url) under the answers a: a file, the bare URL, or a
\* rejection, and whether HEAD and GET were issued.
maybeMapUrlToFile(url, a) ==
  IF startsWithAnyProtocol(url, AUTO_DOWNLOAD_TORRENT_FILE_PROTOCOLS)
    THEN IF ~a.head.ok
           THEN Resolution(url, "rejected", TRUE, FALSE)
         ELSE IF a.head.contentType = NoHeader    \* undefined.toLowerCase()
           THEN Resolution(url, "rejected", TRUE, FALSE)
         ELSE IF /\ HasMetadataFileType(url, a.head.contentType)
                 /\ a.head.contentLength # NaN
                 /\ a.head.contentLength < ARBITRARY_FILE_FETCH_SIZE_CUTOFF
           THEN Resolution(url, IF a.get THEN "file" ELSE "rejected", TRUE, TRUE)
         ELSE Resolution(url, "uri", TRUE, FALSE)
    ELSE Resolution(url, "uri", FALSE, FALSE)

\* rejectUnknownUrls letting every bare URL through.
rejectUnknownUrlsNone(m) == m

\* rejectUnknownUrls: a bare URL must start with a downloadable protocol.
rejectUnknownUrls(m) ==
  IF m.result = "uri" /\ ~startsWithAnyProtocol(m.url, DOWNLOADABLE_PROTOCOLS)
    THEN [m EXCEPT !.result = "rejected"]
    ELSE m

\* The URLs and the answers one resolution is tried on: every scheme class
\* with and without a metadata suffix; every media type, none and no
\* header; sizes around the cutoff, and none.
ProbeUrls ==
  UrlValues \cup { [scheme |-> "http", ext |-> ".nzb"],
                   [scheme |-> "magnet", ext |-> ".torrent"] }
ProbeHeadAnswers ==
  {[ok |-> FALSE, contentType |-> "", contentLength |-> NaN]} \cup
  { [ok |-> TRUE, contentType |-> t, contentLength |-> l] :
      t \in {"application/x-bittorrent", "application/x-nzb", "text/html",
              NoHeader},
      l \in {0, ARBITRARY_FILE_FETCH_SIZE_CUTOFF - 1,
              ARBITRARY_FILE_FETCH_SIZE_CUTOFF,
              2 * ARBITRARY_FILE_FETCH_SIZE_CUTOFF, NaN} }

NoProbe ==
  [ pc |-> "idle", url |-> [scheme |-> "", ext |-> ""],
    answer |-> [ head |-> [ok |-> FALSE, contentType |-> "", contentLength |-> NaN],
                 get |-> FALSE ],
    mapped |-> Resolution([scheme |-> "", ext |-> ""], "rejected", FALSE, FALSE),
    res |-> Resolution([scheme |-> "", ext |-> ""], "rejected", FALSE, FALSE) ]

\* rejectUnknownUrls(maybeMapUrlToFile(url)) for one URL, settled under the
\* answers a.
ResolveUrl(url, a) ==
  /\ probe.pc = "idle"
  /\ probe' = [ pc |-> "settled", url |-> url, answer |-> a,
                mapped |-> maybeMapUrlToFile(url, a),
                res |-> rejectUnknownUrls(maybeMapUrlToFile(url, a)) ]
  /\ UNCHANGED <<now, cache, settings, polls, started, pendingClears,
                 apiSettings, lastNotificationSettings, notificationInterval,
                 liveTimers, finishedTaskIds, notified, badge, confirmedPolls,
                 lastAlone, submission>>

\* urls.map(maybeMapUrlToFile).map(rejectUnknownUrls), settled.
Resolutions(urls, answers) ==
  [i \in 1..Len(urls) |-> rejectUnknownUrls(maybeMapUrlToFile(urls[i], answers[i]))]

\* partitionPromises with the semantics of Promise.all: one rejection
\* rejects the batch.
partitionPromisesFailFast(res) ==
  IF \E i \in 1..Len(res) : res[i].result = "rejected"
    THEN [resolved |-> <<>>, rejected |-> 1]
    ELSE [resolved |-> res, rejected |-> 0]

\* partitionPromises: the fulfilled ones in order, and how many rejected.
partitionPromises(res) ==
  [ resolved |-> SelectSeq(res, LAMBDA m : m.result # "rejected"),
    rejected |-> Len(SelectSeq(res, LAMBDA m : m.result = "rejected")) ]

UrlsOf(items) == [i \in 1..Len(items) |-> items[i].url]

\* The options of the create call: the reduce over the resolved items.
CreateArgs(resolved, destination) ==
  [ file |-> UrlsOf(SelectSeq(resolved, LAMBDA m : m.result = "file")),
    uri |-> UrlsOf(SelectSeq(resolved, LAMBDA m : m.result = "uri")),
    destination |-> destination ]
NoCreateArgs == [file |-> <<>>, uri |-> <<>>, destination |-> NoDestination]

\* What a call of DownloadStation.Task.Create can settle with.
CreateOutcomes ==
  { ConnectionFailure("timeout"), Success(<<>>),
    ErrorResponse(NO_PERMISSIONS_ERROR_CODE), ErrorResponse(OtherErrorCode),
    Rejection }

\* notify(title, message, id): with no id a notification is created under a
\* new id, with an id that notification is updated; notes is the log of the
\* calls, n the URL count the wording depends on.
Notify(notes, title, message, n, id) ==
  Append(notes, [ id |-> IF id = 0 THEN Len(notes) + 1 ELSE id,
                  title |-> title, message |-> message, n |-> n ])

\* notifyTaskAddResult(filename)(result): the update that reports the
\* outcome of the create call.
notifyTaskAddResult(notes, result, n, id) ==
  IF isConnectionFailure(result)
    THEN Notify(notes, "Failed to connection to DiskStation",
                "Please check your settings.", n, id)
  ELSE IF result.kind = "ok"
    THEN IF n = 1
           THEN Notify(notes, "Download added", "filename || urls[0]", n, id)
           ELSE Notify(notes, "downloads added", "", n, id)
  ELSE Notify(notes, "Failed to add download", "errorMessageFromCode", n, id)

\* notifyUnexpectedError raising a notification of its own.
notifyUnexpectedErrorFresh(notes, n, id) ==
  Notify(notes, "Failed to add download",
         "Unexpected error; please check your settings and try again", n, 0)

notifyUnexpectedError(notes, n, id) ==
  Notify(notes, "Failed to add download",
         "Unexpected error; please check your settings and try again", n, id)

NoSubmission ==
  [ pc |-> "idle", urls |-> <<>>, path |-> NoPath,
    destination |-> NoDestination,
    notificationId |-> 0, notes |-> <<>>, resolutions |-> <<>>,
    create |-> [ args |-> NoCreateArgs, calls |-> <<>>, resps |-> <<>>,
                 logouts |-> 0, state |-> "idle", ret |-> NoResult ],
    polls |-> 0, place |-> 0, promise |-> "none" ]

\* addDownloadTasksAndPoll(api, urls, path), its synchronous part: the
\* notification of the start, the destination and the per-URL resolutions
\* issued; or the failure notification for no URL.
addDownloadTasksAndPoll(urls, path) ==
  /\ submission.pc = "idle"
  /\ submission' =
       IF Len(urls) > 0
         THEN [NoSubmission EXCEPT
                 !.pc = "resolving", !.urls = urls, !.path = path,
                 !.destination = Destination(path),
                 !.notificationId = 1,
                 !.notes = Notify(<<>>, IF Len(urls) = 1 THEN "Adding download..."
                                        ELSE "Adding downloads...", "",
                                  Len(urls), 0),
                 !.promise = "pending"]
         ELSE [NoSubmission EXCEPT
                 !.pc = "done", !.path = path,
                 !.notes = Notify(<<>>, "Failed to add download",
                                  "No URL to download given", 0, 0),
                 !.promise = "resolved"]
  /\ UNCHANGED <<probe, now, cache, settings, polls, started, pendingClears,
                 apiSettings, lastNotificationSettings, notificationInterval,
                 liveTimers, finishedTaskIds, notified, badge, confirmedPolls,
                 lastAlone>>

\* SubmitResolved with the create call issued for an empty batch too.
SubmitResolvedAlways(answers) ==
  /\ submission.pc = "resolving"
  /\ LET res == Resolutions(submission.urls, answers)
         part == partitionPromises(res)
     IN submission' =
          [submission EXCEPT
             !.pc = "creating", !.resolutions = res,
             !.create = WrapCall(CreateArgs(part.resolved,
                                            submission.destination))]
  /\ UNCHANGED <<probe, now, cache, settings, polls, started, pendingClears,
                 apiSettings, lastNotificationSettings, notificationInterval,
                 liveTimers, finishedTaskIds, notified, badge, confirmedPolls,
                 lastAlone>>

\* partitionPromises has settled: the .then handler issues the create call
\* for the resolved items, or nothing when there is none.
SubmitResolved(answers) ==
  /\ submission.pc = "resolving"
  /\ LET res == Resolutions(submission.urls, answers)
         part == partitionPromises(res)
     IN submission' =
          IF Len(part.resolved) = 0
            THEN [submission EXCEPT !.pc = "done", !.resolutions = res,
                                    !.promise = "resolved"]
            ELSE [submission EXCEPT
                    !.pc = "creating", !.resolutions = res,
                    !.create = WrapCall(CreateArgs(part.resolved,
                                                   submission.destination))]
  /\ UNCHANGED <<probe, now, cache, settings, polls, started, pendingClears,
                 apiSettings, lastNotificationSettings, notificationInterval,
                 liveTimers, finishedTaskIds, notified, badge, confirmedPolls,
                 lastAlone>>

\* CreateRespond with pollTasks invoked on a successful response only.
CreateRespondOnSuccess(r, places) ==
  /\ submission.pc = "creating"
  /\ submission.create.state = "pending"
  /\ LET w == WrapOnResult(submission.create, r)
     IN IF w.state = "settled" /\ w.ret.kind = "ok"
          THEN /\ CanStartPoll(places)
               /\ polls' = [polls EXCEPT ![NewPoll(places)] = StartedPoll(now)]
               /\ started' = started + 1
               /\ submission' = [submission EXCEPT
                                   !.create = w, !.pc = "polling",
                                   !.polls = @ + 1, !.place = NewPoll(places)]
          ELSE /\ submission' =
                    IF w.state = "pending"
                      THEN [submission EXCEPT !.create = w]
                      ELSE [submission EXCEPT !.create = w, !.pc = "done",
                                              !.promise = "resolved"]
               /\ UNCHANGED <<polls, started>>
  /\ UNCHANGED <<probe, now, cache, settings, pendingClears,
                 apiSettings, lastNotificationSettings, notificationInterval,
                 liveTimers, finishedTaskIds, notified, badge, confirmedPolls,
                 lastAlone>>

\* The create call in flight settles with r: the wrapper retries, or
\* returns and pollOnResponse invokes pollTasks, or rejects and
\* notifyUnexpectedError runs.
CreateRespond(r, places) ==
  /\ submission.pc = "creating"
  /\ submission.create.state = "pending"
  /\ LET w == WrapOnResult(submission.create, r)
     IN IF w.state = "settled"
          THEN /\ CanStartPoll(places)
               /\ polls' = [polls EXCEPT ![NewPoll(places)] = StartedPoll(now)]
               /\ started' = started + 1
               /\ submission' = [submission EXCEPT
                                   !.create = w, !.pc = "polling",
                                   !.polls = @ + 1, !.place = NewPoll(places)]
          ELSE /\ submission' =
                    IF w.state = "rejected"
                      THEN [submission EXCEPT
                              !.create = w, !.pc = "done",
                              !.notes = notifyUnexpectedError(
                                          @, Len(submission.urls),
                                          submission.notificationId),
                              !.promise = "resolved"]
                      ELSE [submission EXCEPT !.create = w]
               /\ UNCHANGED <<polls, started>>
  /\ UNCHANGED <<probe, now, cache, settings, pendingClears,
                 apiSettings, lastNotificationSettings, notificationInterval,
                 liveTimers, finishedTaskIds, notified, badge, confirmedPolls,
                 lastAlone>>

\* The promise of the poll that pollOnResponse started has resolved: so does
\* the promise addDownloadTasksAndPoll returned.
SubmitPollDone ==
  /\ submission.pc = "polling"
  /\ polls[submission.place].promise = "resolved"
  /\ submission' = [submission EXCEPT !.pc = "done", !.promise = "resolved"]
  /\ UNCHANGED <<probe, now, cache, settings, polls, started, pendingClears,
                 apiSettings, lastNotificationSettings, notificationInterval,
                 liveTimers, finishedTaskIds, notified, badge, confirmedPolls,
                 lastAlone>>

\* ------------------------------------------------------- the environment
SettingsValues ==
  [ connection : ConnectionValues,
    notifications : [ enableCompletionNotifications : BOOLEAN,
                      completionPollingInterval : PollingIntervals ],
    badgeDisplayType : BadgeDisplayTypes,
    visibleTasks : VisibleTaskFilters ]

\* The options page writes the settings (possibly a key this model leaves
\* out, so that the modelled keys stay as they are).
SettingsChange(s, places) ==
  /\ s.connection # apiSettings => CanStartPoll(places)
  /\ settings' = s
  /\ onStoredStateChange(cache, settings', pendingClears)
  /\ UNCHANGED <<probe, submission, now, cache, polls, started, confirmedPolls, lastAlone>>

\* Date.now() advances.
Tick ==
  /\ now < START_TIME + MaxTicks
  /\ now' = now + 1
  /\ UNCHANGED <<probe, submission, cache, settings, polls, started, pendingClears,
                 apiSettings,
                 lastNotificationSettings, notificationInterval, liveTimers,
                 finishedTaskIds, notified, badge, confirmedPolls,
                 lastAlone>>

PersistedCaches ==
  { emptyState,
    [ tasks |-> <<[id |-> "1", status |-> "finished"]>>,
      taskFetchFailureReason |-> NoReason,
      tasksLastCompletedFetchTimestamp |-> PrevSessionTime,
      tasksLastInitiatedFetchTimestamp |-> PrevSessionTime ] }

\* The settings the behaviours of Spec and SpecPoll use: one connection, one
\* polling interval, the badge showing the total.
OneConnection ==
  {s \in SettingsValues : /\ s.connection = "hostA"
                          /\ s.notifications.completionPollingInterval = 30
                          /\ s.badgeDisplayType = "total"
                          /\ s.visibleTasks = Statuses}

Init ==
  /\ now = START_TIME
  /\ cache \in PersistedCaches
  /\ settings \in OneConnection
  /\ polls = [p \in Places |-> IdlePoll]
  /\ started = 0
  /\ pendingClears = 0
  /\ apiSettings = "unset"
  /\ lastNotificationSettings = UndefinedSettings
  /\ notificationInterval = 0
  /\ liveTimers = {}
  /\ finishedTaskIds = UndefinedIds
  /\ notified = <<>>
  /\ badge = NoBadge
  /\ confirmedPolls = [count |-> 0, first |-> <<>>]
  /\ lastAlone = FALSE
  /\ submission = NoSubmission
  /\ probe = NoProbe

Next ==
  \/ TimerTick(Places)
  \/ \E p \in Places : InitWriteCommit(p)
  \/ \E p \in Places : \E r \in PlainOutcomes : ListRespond(p, r)
  \/ \E p \in Places : PollThen(p)
  \/ \E p \in Places : ResultWriteCommit(p)
  \/ ClearCommit(Places)
  \/ \E s \in OneConnection : SettingsChange(s, Places)
  \/ Tick

Spec == Init /\ [][Next]_vars

\* Every outcome of the writes and of the list call.
NextPoll ==
  \/ TimerTick(OnePlace)
  \/ \E p \in OnePlace : InitWriteCommit(p)
  \/ \E p \in OnePlace : InitWriteReject(p)
  \/ \E p \in OnePlace : \E r \in ListOutcomes : ListRespond(p, r)
  \/ \E p \in OnePlace : PollThen(p)
  \/ \E p \in OnePlace : ResultWriteCommit(p)
  \/ \E p \in OnePlace : ResultWriteReject(p)
  \/ ClearCommit(OnePlace)
  \/ ClearReject
  \/ \E s \in OneConnection : SettingsChange(s, OnePlace)
  \/ Tick

SpecPoll == Init /\ [][NextPoll]_vars

\* Every value of the notification and badge settings, one connection; the
\* list call answers a list, or fails in one of the two ways the cache tells
\* apart.
ListenerSettings == {s \in SettingsValues : s.connection = "hostA"}
ListenerOutcomes == PlainOutcomes \cup {ConnectionFailure("missing-config")}

NextListener ==
  \/ TimerTick(OnePlace)
  \/ \E p \in OnePlace : InitWriteCommit(p)
  \/ \E p \in OnePlace : \E r \in ListenerOutcomes : ListRespond(p, r)
  \/ \E p \in OnePlace : PollThen(p)
  \/ \E p \in OnePlace : ResultWriteCommit(p)
  \/ ClearCommit(OnePlace)
  \/ \E s \in ListenerSettings : SettingsChange(s, OnePlace)
  \/ Tick

SpecListener == Init /\ [][NextListener]_vars

\* The connection settings change while polls are in flight.
ConnectionSettings ==
  {s \in SettingsValues : /\ s.notifications.completionPollingInterval = 30
                          /\ s.badgeDisplayType = "total"
                          /\ s.visibleTasks = Statuses}

\* What the list call answers: a failure, or the finished task of the
\* server it was sent to.
ConnectionOutcomes ==
  { ConnectionFailure("timeout"),
    Success(<<[id |-> "1", status |-> "finished"]>>) }

NextConnection ==
  \/ \E p \in Places : InitWriteCommit(p)
  \/ \E p \in Places : \E r \in ConnectionOutcomes : ListRespond(p, r)
  \/ \E p \in Places : PollThen(p)
  \/ \E p \in Places : ResultWriteCommit(p)
  \/ ClearCommit(Places)
  \/ \E s \in ConnectionSettings : SettingsChange(s, Places)
  \/ Tick

SpecConnection == Init /\ [][NextConnection]_vars

\* What the list call of the poll after a submission answers.
SubmitListOutcomes == {ConnectionFailure("timeout"), Success(<<>>)}

\* The answers to the probes of the resolutions in flight, one per URL.
AnswersInFlight ==
  IF submission.pc = "resolving"
    THEN [1..Len(submission.urls) -> ProbeAnswers]
    ELSE {}

\* One submission, and the poll it sets off.
NextSubmit ==
  \/ \E urls \in UrlLists : \E path \in Paths : addDownloadTasksAndPoll(urls, path)
  \/ \E answers \in AnswersInFlight : SubmitResolved(answers)
  \/ \E r \in CreateOutcomes : CreateRespond(r, OnePlace)
  \/ SubmitPollDone
  \/ \E p \in OnePlace : InitWriteCommit(p)
  \/ \E p \in OnePlace : \E r \in SubmitListOutcomes : ListRespond(p, r)
  \/ \E p \in OnePlace : PollThen(p)
  \/ \E p \in OnePlace : ResultWriteCommit(p)

SpecSubmit == Init /\ [][NextSubmit]_vars

\* One per-URL resolution, over every URL and every answer.
NextProbe ==
  \E url \in ProbeUrls :
    \E h \in ProbeHeadAnswers : \E g \in BOOLEAN :
      ResolveUrl(url, [head |-> h, get |-> g])

SpecProbe == Init /\ [][NextProbe]_vars

\* ------------------------------------------------------------ properties

\* C1. Retry law: once the wrapped call has answered the no-permissions error
\* first, Auth.Logout has been invoked exactly once and the call has been made
\* exactly twice with the same arguments; when the second answer X arrives
\* (a success or a second no-permissions error alike) the wrapper returns X
\* verbatim, with no third call and no second logout.
RetryLaw ==
  \A p \in DOMAIN polls :
    LET w == polls[p].wrap
    IN (Len(w.resps) >= 1 /\ w.resps[1] = ErrorResponse(NO_PERMISSIONS_ERROR_CODE)) =>
         /\ w.logouts = 1
         /\ w.calls = <<w.args, w.args>>
         /\ Len(w.resps) <= 2
         /\ Len(w.resps) = 1 => w.state = "pending"
         /\ (Len(w.resps) = 2 /\ w.resps[2].kind # "throw") =>
               (w.state = "settled" /\ w.ret = w.resps[2])

\* The second answer was a no-permissions error again, and it was returned.
RetryLawWitness ==
  \E p \in DOMAIN polls :
    /\ polls[p].wrap.resps = << ErrorResponse(NO_PERMISSIONS_ERROR_CODE),
                                ErrorResponse(NO_PERMISSIONS_ERROR_CODE) >>
    /\ polls[p].wrap.state = "settled"
    /\ polls[p].wrap.ret = ErrorResponse(NO_PERMISSIONS_ERROR_CODE)

\* C2. Pass-through: a first answer that is a connection failure, a success
\* or an application error other than no-permissions is returned unchanged,
\* after exactly one call and no logout.
PassThrough ==
  \A p \in DOMAIN polls :
    LET w == polls[p].wrap
    IN (Len(w.resps) >= 1 /\ w.resps[1].kind \in {"conn", "ok", "err"}
          /\ ~(w.resps[1].kind = "err" /\ w.resps[1].code = NO_PERMISSIONS_ERROR_CODE)) =>
         /\ w.state = "settled"
         /\ w.ret = w.resps[1]
         /\ Len(w.resps) = 1
         /\ w.calls = <<w.args>>
         /\ w.logouts = 0

\* An application error other than no-permissions was passed through.
PassThroughWitness ==
  \E p \in DOMAIN polls :
    /\ polls[p].wrap.resps = <<ErrorResponse(OtherErrorCode)>>
    /\ polls[p].wrap.ret = ErrorResponse(OtherErrorCode)
    /\ polls[p].wrap.state = "settled"

\* How often x occurs in seq.
Count(seq, x) == Cardinality({i \in 1..Len(seq) : seq[i] = x})
\* The status of task id in a list, "absent" when it is not in it.
StatusIn(tasks, id) ==
  IF \E i \in 1..Len(tasks) : tasks[i].id = id
    THEN tasks[CHOOSE i \in 1..Len(tasks) : tasks[i].id = id].status
    ELSE "absent"
TerminalIds(tasks) == {id \in TaskIds : StatusIn(tasks, id) \in {"finished", "seeding"}}
\* The confirmation preconditions, on a cache.
ConfirmationHolds(c) ==
  /\ c.tasksLastCompletedFetchTimestamp # Null
  /\ c.tasksLastCompletedFetchTimestamp > START_TIME
  /\ c.taskFetchFailureReason = NoReason

\* C3. No-duplicate law: whatever the sequence of listener firings, no task
\* id is the subject of more than one completion notification.
NoDuplicateNotification == \A id \in TaskIds : Count(notified, id) <= 1

\* Task "1" has been notified, has left the cached list since (the cache was
\* cleared or a poll did not show it terminal), and a confirmed result write
\* that shows it finished again is on its way.
NoDuplicateWitness ==
  /\ notified = <<"1">>
  /\ StatusIn(cache.tasks, "1") \notin {"finished", "seeding"}
  /\ \E p \in DOMAIN polls :
       /\ polls[p].pc = "writing"
       /\ IsConfirmedPoll(polls[p].payload)
       /\ StatusIn(polls[p].payload.tasks, "1") = "finished"

\* C4. Monotonicity: once finishedTaskIds is defined it stays defined and
\* every id in it stays in it, at every step.
Monotonic ==
  [][ finishedTaskIds.defined =>
        /\ finishedTaskIds'.defined
        /\ \A i \in 1..Len(finishedTaskIds.ids) :
             Contains(finishedTaskIds'.ids, finishedTaskIds.ids[i]) ]_vars

\* A tracked id is kept although a confirmed poll no longer lists its task.
MonotonicWitness ==
  /\ finishedTaskIds.defined
  /\ Contains(finishedTaskIds.ids, "1")
  /\ ConfirmationHolds(cache)
  /\ StatusIn(cache.tasks, "1") = "absent"

\* C5. Scenario A: when the first confirmed poll shows task "1" downloading,
\* no notification has fired by then nor fires until the next confirmed poll;
\* when that one shows it finished, with completion notifications enabled,
\* its result write fires exactly one notification, for task "1".
ScenarioA ==
  [][ /\ (confirmedPolls'.count = 1
            /\ StatusIn(confirmedPolls'.first, "1") = "downloading") =>
          notified' = <<>>
      /\ (confirmedPolls.count = 1 /\ confirmedPolls'.count = 2
            /\ StatusIn(confirmedPolls.first, "1") = "downloading"
            /\ StatusIn(cache'.tasks, "1") = "finished"
            /\ settings.notifications.enableCompletionNotifications) =>
          (notified = <<>> /\ notified' = <<"1">>) ]_vars

\* The two polls of scenario A have committed and task "1" was notified once.
ScenarioAWitness ==
  /\ confirmedPolls.count = 2
  /\ StatusIn(confirmedPolls.first, "1") = "downloading"
  /\ StatusIn(cache.tasks, "1") = "finished"
  /\ notified = <<"1">>

\* C6. Scenario B: the first firing on a state that satisfies the
\* confirmation preconditions takes finishedTaskIds from undefined to exactly
\* the ids that are finished or seeding in the cached list, and fires no
\* notification, whatever the notification settings.
ScenarioB ==
  [][ (~finishedTaskIds.defined /\ ConfirmationHolds(cache')) =>
        /\ finishedTaskIds'.defined
        /\ {finishedTaskIds'.ids[i] : i \in 1..Len(finishedTaskIds'.ids)}
             = TerminalIds(cache'.tasks)
        /\ Len(finishedTaskIds'.ids) = Cardinality(TerminalIds(cache'.tasks))
        /\ notified' = notified ]_vars

\* A task that was already finished at the first confirmed poll seeded the
\* set, with completion notifications enabled, and nothing was notified.
ScenarioBWitness ==
  /\ confirmedPolls.count = 1
  /\ StatusIn(confirmedPolls.first, "1") = "finished"
  /\ finishedTaskIds = [defined |-> TRUE, ids |-> <<"1">>]
  /\ settings.notifications.enableCompletionNotifications
  /\ notified = <<>>

\* C7. Confirmation gating: a step that leaves the cache with a null
\* completion timestamp, or one not strictly after START_TIME, or a failure
\* reason, leaves finishedTaskIds as it was and fires no notification.
ConfirmationGating ==
  [][ ~ConfirmationHolds(cache') =>
        (finishedTaskIds' = finishedTaskIds /\ notified' = notified) ]_vars

\* A poll of this process completed at START_TIME itself with a finished
\* task, the listener fired on it, and finishedTaskIds is still undefined.
ConfirmationGatingWitness ==
  /\ cache.tasksLastCompletedFetchTimestamp = START_TIME
  /\ cache.taskFetchFailureReason = NoReason
  /\ StatusIn(cache.tasks, "1") = "finished"
  /\ ~finishedTaskIds.defined
  /\ notified = <<>>

NeverRejects ==
  \A p \in DOMAIN polls :
    /\ polls[p].promise # "rejected"
    /\ polls[p].pc = "done" => polls[p].promise = "resolved"
    /\ ( \/ polls[p].initWrite = "rejected"
         \/ polls[p].wrap.state = "rejected"
         \/ polls[p].resultWrite = "rejected" ) => polls[p].promise = "resolved"

\* The list call has rejected while the initiated write was still in flight:
\* the handler caught it.
NeverRejectsWitness ==
  \E p \in DOMAIN polls :
    /\ polls[p].wrap.state = "rejected"
    /\ polls[p].initWrite = "pending"
    /\ polls[p].caught
    /\ polls[p].promise = "resolved"

\* C10. Poll classification: the result write that commits carries the reason
\* of exactly one branch: missing-config for a connection failure of that
\* type, a failure message for any other connection failure, null and the
\* returned list as tasks for a success, a failure message for an error
\* response, the no-permissions error that the retry answered again included.
PollClassification ==
  [][ \A p \in DOMAIN polls : ResultWriteCommit(p) =>
        LET r == polls[p].wrap.ret
            reason == cache'.taskFetchFailureReason
            missing == r.kind = "conn" /\ r.type = "missing-config"
            failed == r.kind = "conn" /\ r.type # "missing-config"
            success == r.kind = "ok"
            error == r.kind = "err"
        IN /\ Cardinality({b \in {missing, failed} : b})
                + Cardinality({b \in {success, error} : b}) = 1
           /\ missing => reason = MissingConfig /\ cache'.tasks = cache.tasks
           /\ failed => /\ reason = [kind |-> "failure", from |-> "connection",
                                     code |-> 0, type |-> r.type]
                        /\ cache'.tasks = cache.tasks
           /\ success => reason = NoReason /\ cache'.tasks = r.tasks
           /\ error => /\ reason = [kind |-> "failure", from |-> "code",
                                    code |-> r.code, type |-> ""]
                       /\ cache'.tasks = cache.tasks
           /\ (error /\ r.code = NO_PERMISSIONS_ERROR_CODE) =>
                Len(polls[p].wrap.calls) = 2 ]_vars

\* The reason of a no-permissions error is in the cache: the error survived
\* the retry and its result write committed.
PollClassificationWitness ==
  /\ cache.taskFetchFailureReason =
       [kind |-> "failure", from |-> "code",
        code |-> NO_PERMISSIONS_ERROR_CODE, type |-> ""]
  /\ cache.tasksLastCompletedFetchTimestamp >= START_TIME

\* C11. Frame of tasks: the result write of a successful poll leaves tasks
\* equal to the returned list, whatever the list before; the result write of
\* a poll that failed leaves tasks as they were, and still writes a failure
\* reason and the completion timestamp.
TasksFrame ==
  [][ \A p \in DOMAIN polls : ResultWriteCommit(p) =>
        IF polls[p].wrap.ret.kind = "ok"
          THEN cache'.tasks = polls[p].wrap.ret.tasks
          ELSE /\ cache'.tasks = cache.tasks
               /\ cache'.taskFetchFailureReason # NoReason
               /\ polls[p].payload.hasCompleted
               /\ cache'.tasksLastCompletedFetchTimestamp =
                    polls[p].payload.tasksLastCompletedFetchTimestamp
               /\ cache'.tasksLastCompletedFetchTimestamp >= START_TIME ]_vars

\* A failed poll of this process has committed over a list that is not
\* empty: the list is still there, with the reason and the timestamp.
TasksFrameWitness ==
  /\ cache.tasks # <<>>
  /\ cache.taskFetchFailureReason # NoReason
  /\ cache.tasksLastCompletedFetchTimestamp >= START_TIME

\* C12. One initiated write and at most one result write per poll: an
\* invocation starts with exactly its initiated write in flight, which
\* changes tasksLastInitiatedFetchTimestamp and nothing else; a result write
\* is issued only by an invocation that has issued none, and carries the
\* reason and the completion timestamp (and tasks, on success) in one set
\* call that leaves the initiated timestamp alone; so the cache never has a
\* result without a completion timestamp.
WritesPerPoll ==
  [][ /\ \A p \in DOMAIN polls :
           /\ (polls[p].pc # "running" /\ polls'[p].pc = "running") =>
                 /\ polls'[p].initWrite = "pending"
                 /\ polls'[p].resultWrite = "none"
           /\ InitWriteCommit(p) =>
                 cache' = [cache EXCEPT !.tasksLastInitiatedFetchTimestamp =
                                            polls[p].initTs]
           /\ (polls[p].resultWrite # "pending"
                  /\ polls'[p].resultWrite = "pending") =>
                 /\ polls[p].resultWrite = "none" /\ polls[p].pc = "running"
                 /\ polls'[p].payload.hasReason
                 /\ polls'[p].payload.hasCompleted
                 /\ ~polls'[p].payload.hasInitiated
                 /\ polls'[p].payload.hasTasks <=>
                      polls'[p].payload.taskFetchFailureReason = NoReason
           /\ ResultWriteCommit(p) =>
                 /\ cache'.tasksLastCompletedFetchTimestamp # Null
                 /\ cache'.tasksLastInitiatedFetchTimestamp =
                      cache.tasksLastInitiatedFetchTimestamp
      /\ cache'.tasksLastCompletedFetchTimestamp = Null =>
           (cache'.tasks = <<>> /\ cache'.taskFetchFailureReason = NoReason)
    ]_vars

\* An invocation has had its initiated write committed on a cleared cache and
\* its one result write, for a failure, is in flight.
WritesPerPollWitness ==
  \E p \in DOMAIN polls :
    /\ polls[p].pc = "writing"
    /\ polls[p].initWrite = "ok"
    /\ polls[p].resultWrite = "pending"
    /\ polls[p].payload.taskFetchFailureReason # NoReason
    /\ cache.tasksLastInitiatedFetchTimestamp = polls[p].initTs
    /\ cache.tasksLastCompletedFetchTimestamp = Null

\* A rejection occurs in invocation p at this step: its initiated write, its
\* wrapped list call or its result write rejects.
ExceptionIn(p) ==
  \/ InitWriteReject(p)
  \/ ResultWriteReject(p)
  \/ ListRespond(p, Rejection)

\* C13 as stated. An invocation in which a rejection occurs leaves the cache
\* as it was before it started, tasksLastInitiatedFetchTimestamp included:
\* its initiated write, landing after the rejection, changes nothing; and when
\* the rejection comes after the initiated write of the first invocation of
\* the process, the cache still has the initiated timestamp from before the
\* process started polling.
ExceptionLeavesCacheUnmodified ==
  [][ \A p \in DOMAIN polls :
        /\ (polls[p].caught /\ InitWriteCommit(p)) => cache' = cache
        /\ (started = 1 /\ ExceptionIn(p) /\ polls[p].initWrite = "ok") =>
             cache'.tasksLastInitiatedFetchTimestamp < START_TIME ]_vars

\* C13, amended. An invocation in which a rejection occurs leaves tasks,
\* taskFetchFailureReason and tasksLastCompletedFetchTimestamp as they were:
\* the step of the rejection writes nothing, no result write of the
\* invocation commits after it, and its initiated write, when it lands after
\* it, changes tasksLastInitiatedFetchTimestamp alone.
ExceptionLeavesResultUnmodified ==
  [][ \A p \in DOMAIN polls :
        /\ ExceptionIn(p) => cache' = cache
        /\ polls[p].caught => ~ResultWriteCommit(p)
        /\ (polls[p].caught /\ InitWriteCommit(p)) =>
             cache' = [cache EXCEPT !.tasksLastInitiatedFetchTimestamp =
                                        polls[p].initTs] ]_vars

\* The one invocation so far has ended on a rejection (no invocation and no
\* clear is in flight, and no result was written since the clear): the cache
\* has the initiated timestamp it wrote and the result keys of before.
ExceptionLeavesResultWitness ==
  /\ \A p \in DOMAIN polls : polls[p].pc # "running" /\ polls[p].pc # "writing"
  /\ started = 1
  /\ pendingClears = 0
  /\ cache.tasksLastInitiatedFetchTimestamp >= START_TIME
  /\ cache.tasksLastCompletedFetchTimestamp = Null

\* Some invocation of pollTasks has not settled the promise it returned.
PollInFlight == \E p \in DOMAIN polls : polls[p].promise = "pending"

\* C14. Timestamp invariant of the cache: while some poll is in flight the
\* initiated timestamp is at least the completed one, and when none is in
\* flight the completed timestamp is at least the initiated one (null
\* compares as 0, as in the code's language).
TimestampInvariant ==
  IF PollInFlight
    THEN cache.tasksLastInitiatedFetchTimestamp >=
           cache.tasksLastCompletedFetchTimestamp
    ELSE cache.tasksLastCompletedFetchTimestamp >=
           cache.tasksLastInitiatedFetchTimestamp

\* The case of C14 with two overlapping polls: one has committed its result
\* while the other, whose initiated write has committed, is still in flight,
\* and the cache has the completed timestamp after the initiated one.
OverlapBreaksTimestamps ==
  \E p \in DOMAIN polls :
    /\ polls[p].promise = "pending"
    /\ polls[p].initWrite = "ok"
    /\ cache.tasksLastInitiatedFetchTimestamp = polls[p].initTs
    /\ cache.tasksLastCompletedFetchTimestamp >
         cache.tasksLastInitiatedFetchTimestamp

\* C15. Order within one poll: a result write is issued only when the
\* initiated write of the same invocation has committed and its list call
\* has settled, and the completed timestamp it carries, and commits, is at
\* least the initiated timestamp the invocation wrote.
CompletedAfterInitiated ==
  [][ \A p \in DOMAIN polls :
        /\ (polls[p].resultWrite # "pending"
               /\ polls'[p].resultWrite = "pending") =>
             /\ polls[p].initWrite = "ok"
             /\ polls[p].wrap.state = "settled"
             /\ polls'[p].payload.tasksLastCompletedFetchTimestamp >=
                  polls[p].initTs
        /\ ResultWriteCommit(p) =>
             /\ polls[p].initWrite = "ok"
             /\ cache'.tasksLastCompletedFetchTimestamp >= polls[p].initTs ]_vars

\* A result write is in flight whose completed timestamp is after the
\* initiated timestamp of its invocation.
CompletedAfterInitiatedWitness ==
  \E p \in DOMAIN polls :
    /\ polls[p].pc = "writing"
    /\ polls[p].initWrite = "ok"
    /\ polls[p].payload.tasksLastCompletedFetchTimestamp > polls[p].initTs

\* The number the badge is about: all the cached tasks, or those that pass
\* the visibility filter.
BadgeCount ==
  IF settings.badgeDisplayType = "total"
    THEN Len(cache.tasks)
    ELSE Cardinality({i \in 1..Len(cache.tasks) :
                        cache.tasks[i].status \in settings.visibleTasks})

\* C16. Scenario F: once the listener has fired, whenever the stored failure
\* reason is not null the badge is the disabled icon set, an empty text and
\* red, whatever the cached tasks, the visibility filter and badgeDisplayType.
BadgeInFailure ==
  (badge # NoBadge /\ cache.taskFetchFailureReason # NoReason) =>
    badge = [icon |-> "disabled", text |-> "", color |-> <<217, 0, 0, 255>>]

\* The listener has fired on a failure with a task in the cache that the
\* badge would count.
BadgeInFailureWitness ==
  /\ badge.icon = "disabled"
  /\ cache.taskFetchFailureReason # NoReason
  /\ BadgeCount = 1

\* C17 as stated. Once the listener has fired, whenever the stored failure
\* reason is null the badge is the enabled icon set, green, and its text is
\* the number of tasks (total or filtered), 0 included.
BadgeShowsCount ==
  (badge # NoBadge /\ cache.taskFetchFailureReason = NoReason) =>
    badge = [icon |-> "enabled", text |-> ToString(BadgeCount),
             color |-> <<0, 217, 0, 255>>]

\* C17, amended. As stated, but with an empty text when the number is 0.
BadgeShowsCountOrBlank ==
  (badge # NoBadge /\ cache.taskFetchFailureReason = NoReason) =>
    badge = [icon |-> "enabled",
             text |-> IF BadgeCount = 0 THEN "" ELSE ToString(BadgeCount),
             color |-> <<0, 217, 0, 255>>]

\* The badge shows the filtered count of a healthy cache whose one task the
\* filter hides, so that the total is 1 and the text is empty.
BadgeShowsCountWitness ==
  /\ badge.icon = "enabled"
  /\ cache.taskFetchFailureReason = NoReason
  /\ settings.badgeDisplayType = "filtered"
  /\ Len(cache.tasks) = 1
  /\ BadgeCount = 0
  /\ badge.text = ""

\* C18. Timer reconciliation: after every firing at most one periodic timer
\* is live; one is live exactly when the last applied notification settings
\* enable completion notifications; it is the one notificationInterval names
\* and its period is the last applied completionPollingInterval; and a step
\* that leaves the stored notification settings equal to the last applied
\* ones neither clears nor sets a timer.
TimerReconciled ==
  [][ /\ lastNotificationSettings' # UndefinedSettings =>
           /\ Cardinality(liveTimers') <= 1
           /\ liveTimers' # {} <=>
                lastNotificationSettings'.enableCompletionNotifications
           /\ \A t \in liveTimers' :
                /\ t.period = lastNotificationSettings'.completionPollingInterval
                /\ t.handle = notificationInterval'
      /\ settings'.notifications = lastNotificationSettings =>
           /\ liveTimers' = liveTimers
           /\ notificationInterval' = notificationInterval ]_vars

\* The timer was replaced by one of another period, and firings with the
\* same settings (the writes of a poll that it started) have left it alone.
TimerReconciledWitness ==
  /\ liveTimers = {[handle |-> 2, period |-> 60]}
  /\ notificationInterval = 2
  /\ started >= 2
  /\ cache.tasksLastCompletedFetchTimestamp >= START_TIME

\* C19 as stated. Submission feedback: a submission of at least one URL
\* creates one notification, every later notify call names that same
\* notification, and once the create call has returned a response the
\* notification has been updated with the report of that response:
\* connection failure, the message of the error code, or success.
SubmissionFeedback ==
  /\ (submission.pc # "idle" /\ Len(submission.urls) > 0) =>
       /\ Len(submission.notes) >= 1
       /\ \A i \in 1..Len(submission.notes) :
            submission.notes[i].id = submission.notificationId
  /\ submission.create.state = "settled" =>
       submission.notes =
         notifyTaskAddResult(SubSeq(submission.notes, 1, 1),
                             submission.create.ret, Len(submission.urls),
                             submission.notificationId)

\* The create call has returned an error response, the poll that followed
\* is over and so is the submission, and the notification still reads as it
\* did at the start.
UnreportedOutcome ==
  /\ submission.pc = "done"
  /\ submission.create.state = "settled"
  /\ submission.create.ret = ErrorResponse(OtherErrorCode)
  /\ Len(submission.notes) = 1
  /\ submission.notes[1].title = "Adding download..."

\* C20. Re-poll after submission: pollTasks has been invoked exactly once
\* when the create call has returned its result, whatever the result is
\* (success, application error, connection failure), and not at all before:
\* neither while no create call was issued, nor while it is in flight or
\* retried, nor when it ended in an exception.
RePollAfterCreate ==
  /\ submission.create.state = "settled" =>
       (started = 1 /\ submission.polls = 1)
  /\ submission.create.state # "settled" =>
       (started = 0 /\ submission.polls = 0)

\* The create call was retried after the no-permissions error and then
\* failed to connect; the one poll that followed has run to its end.
RePollAfterCreateWitness ==
  /\ submission.pc = "done"
  /\ Len(submission.create.calls) = 2
  /\ submission.create.ret = ConnectionFailure("timeout")
  /\ started = 1
  /\ polls[submission.place].promise = "resolved"

\* C21. Submission never rejects: the promise addDownloadTasksAndPoll
\* returned is never rejected and is resolved once the pipeline has ended
\* (empty list, every item rejected, create call answered or thrown); and
\* an exception of the create call leaves exactly one generic failure
\* notification, made on the identity of the submission's notification,
\* while no other ending makes one.
SubmissionNeverRejects ==
  LET generic == [ id |-> submission.notificationId,
                   title |-> "Failed to add download",
                   message |-> "Unexpected error; please check your settings and try again",
                   n |-> Len(submission.urls) ]
      unexpected == {i \in 1..Len(submission.notes) :
                      submission.notes[i].message = generic.message}
  IN /\ submission.promise # "rejected"
     /\ submission.pc = "done" => submission.promise = "resolved"
     /\ submission.create.state = "rejected" =>
          /\ submission.pc = "done"
          /\ Cardinality(unexpected) = 1
          /\ \A i \in unexpected : submission.notes[i] = generic
          /\ submission.notificationId = submission.notes[1].id
     /\ submission.create.state # "rejected" => unexpected = {}

\* The create call of a submission of two URLs threw on its retry; the
\* promise is resolved.
SubmissionNeverRejectsWitness ==
  /\ submission.create.state = "rejected"
  /\ Len(submission.create.calls) = 2
  /\ Len(submission.urls) = 2
  /\ submission.promise = "resolved"

\* The sequence items holds the URLs whose resolution is of the given kind,
\* each once and in the order of the input.
InInputOrder(items, kind) ==
  LET idx == {i \in 1..Len(submission.urls) :
                submission.resolutions[i].result = kind}
  IN /\ Len(items) = Cardinality(idx)
     /\ \E f \in [1..Len(items) -> idx] :
          /\ \A j, k \in 1..Len(items) : j < k => f[j] < f[k]
          /\ \A j \in 1..Len(items) : items[j] = submission.urls[f[j]]

\* C22. Per-item isolation: once the resolutions of a batch have settled,
\* the resolved and the rejected ones together are as many as the URLs; and
\* if at least one resolved, one create call has been issued (the retry
\* repeats it with the same options) whose file[] holds the items resolved
\* to files and whose uri[] the items resolved to bare URLs, each once, in
\* input order, with no rejected item in either.
PerItemIsolation ==
  LET res == submission.resolutions
      part == partitionPromises(res)
  IN (submission.pc \in {"creating", "polling", "done"} /\ Len(res) > 0) =>
       /\ Len(part.resolved) + part.rejected = Len(submission.urls)
       /\ (\E i \in 1..Len(res) : res[i].result # "rejected") =>
            /\ submission.create.state # "idle"
            /\ Len(submission.create.calls) \in {1, 2}
            /\ \A c \in 1..Len(submission.create.calls) :
                 submission.create.calls[c] = submission.create.args
            /\ InInputOrder(submission.create.args.file, "file")
            /\ InInputOrder(submission.create.args.uri, "uri")

\* The first URL of a batch of two was rejected and the second fetched: the
\* create call carries the second alone.
PerItemIsolationWitness ==
  /\ Len(submission.resolutions) = 2
  /\ submission.resolutions[1].result = "rejected"
  /\ submission.resolutions[2].result = "file"
  /\ submission.create.state = "settled"
  /\ submission.create.args.file = <<submission.urls[2]>>
  /\ submission.create.args.uri = <<>>

\* C23. No server-side submission without a resolved item: a submission of
\* an empty list, or one whose resolutions have all been rejected, has
\* issued no create call and started no poll; and the submission of an
\* empty list has made one notification, the failure 'No URL to download
\* given'.
NoCreateWithoutItem ==
  LET res == submission.resolutions
  IN /\ ( /\ submission.pc \in {"creating", "polling", "done"}
          /\ \A i \in 1..Len(res) : res[i].result = "rejected" ) =>
          /\ submission.pc = "done"
          /\ submission.create.state = "idle"
          /\ submission.create.calls = <<>>
          /\ submission.polls = 0
          /\ started = 0
     /\ (submission.pc # "idle" /\ Len(submission.urls) = 0) =>
          submission.notes = << [ id |-> 1, title |-> "Failed to add download",
                                  message |-> "No URL to download given",
                                  n |-> 0 ] >>

\* Both URLs of a batch were rejected, one for its scheme and one by its
\* probe, and the submission has ended.
NoCreateWithoutItemWitness ==
  /\ Len(submission.resolutions) = 2
  /\ submission.resolutions[1] =
       Resolution([scheme |-> "file", ext |-> ""], "rejected", FALSE, FALSE)
  /\ submission.resolutions[2].result = "rejected"
  /\ submission.resolutions[2].probed
  /\ submission.pc = "done"
  /\ submission.promise = "resolved"

\* C24. Downloadable-scheme allow-list: every string in uri[] of every
\* create call starts with one of http, https, ftp, ftps, magnet, thunder,
\* flashget, qqdl; a URL of any other scheme is rejected, and a URL of an
\* allowed scheme that is not probed stays a bare URL whatever became of
\* the other items of the batch.
SchemeAllowList ==
  LET allowed == {"http", "https", "ftp", "ftps", "magnet", "thunder",
                  "flashget", "qqdl"}
      res == submission.resolutions
  IN /\ \A c \in 1..Len(submission.create.calls) :
          \A j \in 1..Len(submission.create.calls[c].uri) :
            submission.create.calls[c].uri[j].scheme \in allowed
     /\ \A i \in 1..Len(res) :
          /\ res[i].url = submission.urls[i]
          /\ res[i].url.scheme \notin allowed => res[i].result = "rejected"
          /\ res[i].url.scheme \in allowed \ {"http", "https"} =>
               res[i].result = "uri"

\* A batch of a file: URL and a magnet link: the first is rejected, the
\* create call carries the second.
SchemeAllowListWitness ==
  /\ Len(submission.resolutions) = 2
  /\ submission.urls[1].scheme = "file"
  /\ submission.resolutions[1].result = "rejected"
  /\ submission.urls[2].scheme = "magnet"
  /\ Len(submission.create.calls) = 1
  /\ submission.create.calls[1].uri = <<submission.urls[2]>>

\* C25 as stated. File-versus-URI decision: a URL is probed exactly if its
\* scheme is http or https; when the probe is answered, the body is fetched
\* exactly when a metadata file type matches (by content type or by the
\* suffix of the URL without its query) and the content length is a known
\* number below 5 MiB, and the fetched body is the item, a file; in every
\* other case the item is the bare URL and no body is fetched.
FileVersusUri ==
  probe.pc = "settled" =>
    LET url == probe.url
        h == probe.answer.head
        m == probe.mapped
        auto == url.scheme \in {"http", "https"}
        matched == \/ h.contentType \in {"application/x-bittorrent",
                                          "application/x-nzb"}
                   \/ url.ext \in {".torrent", ".nzb"}
        small == h.contentLength # NaN /\ h.contentLength < 5 * 1024 * 1024
    IN /\ m.probed <=> auto
       /\ m.fetched => m.probed
       /\ m.result = "file" => m.fetched
       /\ ~auto => m.result = "uri"
       /\ (auto /\ h.ok) =>
            /\ m.fetched <=> (matched /\ small)
            /\ (m.fetched /\ probe.answer.get) => m.result = "file"
            /\ ~m.fetched => m.result = "uri"

\* The probe of an https URL ending in .torrent was answered without a
\* content-type header and with a small content length: the item is
\* rejected, and nothing is fetched.
NoContentTypeRejected ==
  /\ probe.pc = "settled"
  /\ probe.url = [scheme |-> "https", ext |-> ".torrent"]
  /\ probe.answer.head.ok
  /\ probe.answer.head.contentType = NoHeader
  /\ probe.answer.head.contentLength = ARBITRARY_FILE_FETCH_SIZE_CUTOFF - 1
  /\ probe.mapped.result = "rejected"
  /\ ~probe.mapped.fetched

\* C26 as stated. Destination path: every create call carries as its
\* destination the given path without its leading separator when it has
\* one, the given path itself when it has none, and none when no path was
\* given.
DestinationPath ==
  \A c \in 1..Len(submission.create.calls) :
    submission.create.calls[c].destination =
      IF submission.path.given
        THEN [defined |-> TRUE, value |-> submission.path.rest]
        ELSE NoDestination

\* A path without a leading separator was given, and the create call has
\* been issued and answered with no destination.
DestinationDropped ==
  /\ submission.path = [given |-> TRUE, slash |-> FALSE, rest |-> "downloads"]
  /\ submission.create.state = "settled"
  /\ submission.create.calls[1].destination = NoDestination

\* C27 as stated. No stale data after a connection-settings change: the
\* firing that sees changed connection settings issues the clear and starts
\* no poll; the step in which the clear commits leaves the cache empty and
\* starts the poll; and once the clear has committed, the result write of a
\* poll whose list call was issued under other connection settings than the
\* current ones changes neither the cached tasks nor the failure reason,
\* and no completion notification is made on it.
NoStaleData ==
  [][ /\ apiSettings' # apiSettings =>
           (pendingClears' = pendingClears + 1 /\ started' = started)
      /\ pendingClears' < pendingClears =>
           (cache' = emptyState /\ started' = started + 1)
      /\ \A p \in Places :
           ( /\ ResultWriteCommit(p)
             /\ polls[p].conn # apiSettings
             /\ pendingClears = 0 ) =>
             /\ cache'.tasks = cache.tasks
             /\ cache'.taskFetchFailureReason = cache.taskFetchFailureReason
             /\ notified' = notified ]_vars

\* The connection was changed from hostA to hostB while the first poll was
\* in flight; the cache was cleared and the second poll, to hostB, has no
\* answer yet; the cache holds the task the first poll fetched from hostA.
StaleTasksAfterClear ==
  /\ apiSettings = "hostB"
  /\ pendingClears = 0
  /\ started = 2
  /\ \E p \in Places : /\ polls[p].conn = "hostB"
                        /\ polls[p].wrap.state = "pending"
                        /\ Len(polls[p].wrap.resps) = 0
  /\ \A p \in Places : polls[p].conn # "hostA"
  /\ cache.tasks = <<[id |-> "1", status |-> "finished"]>>
  /\ cache.tasksLastCompletedFetchTimestamp # Null

====
